---------------------------- MODULE Spec2Model ----------------------------
(***************************************************************************)
(* Behatrix command line utility (src/behatrix_cli.py): the parser of      *)
(* behavioural strings, the exclusion validator, the observed transition   *)
(* matrix, the constrained permutation generator, the permutation test     *)
(* driver and the aggregator of main().                                    *)
(*                                                                         *)
(* A Python str is a sequence of one-character strings, so a token is a    *)
(* sequence of characters: <<"a">> is the token "a", <<"a","b">> the token *)
(* "ab", <<>> the empty str.  A Python list is a sequence, a dict is a     *)
(* function whose DOMAIN is the set of its keys.                           *)
(***************************************************************************)
EXTENDS Integers, Sequences, FiniteSets, TLC

(***************************************************************************)
(* Bounds of the model.                                                    *)
(***************************************************************************)
\* permutation generator (Spec): number of sequences, their length, their
\* total length, and the number of excluded transitions of the exclusion map
MaxSeqs == 2
MaxLen == 3
MaxTokens == 5
MaxExcl == 2
\* driver and aggregator (SpecRun, FairSpec): total length of the sequences,
\* excluded transitions, requested randomizations, worker processes
MaxTokensRun == 3
MaxExclRun == 1
MaxN == 2
MaxW == 2
\* aggregator alone (SpecShares): requested randomizations, worker processes
MaxNShares == 7
MaxWShares == 4
\* count_tot is counted exactly up to AttemptCap and stays there afterwards
\* (the loop itself goes on: the counter is never read by the program); a
\* Driver whose count has reached MaxN is not followed further
AttemptCap == 3
\* parser (SpecStats): length of the input text, chunk; validator (SpecExcl):
\* length of the exclusion text, total length of the sequences
MaxText == 5
MaxChunk == 2
MaxExclText == 4
MaxTokensExcl == 4

(***************************************************************************)
(* Python's built-in operations on str and list.                           *)
(***************************************************************************)
Range(s) == {s[i] : i \in DOMAIN s}

\* ord() of the characters the model uses
Ord(c) ==
    CASE c = "\n" -> 10
      [] c = " " -> 32
      [] c = "#" -> 35
      [] c = ":" -> 58
      [] c = "a" -> 97
      [] c = "b" -> 98
      [] c = "c" -> 99
      [] c = "|" -> 124

IsSpace(c) == c \in {" ", "\n"}

\* s1 < s2 on str: lexicographic on the code points
RECURSIVE StrLess(_, _)
StrLess(s, t) ==
    IF t = <<>> THEN FALSE
    ELSE IF s = <<>> THEN TRUE
    ELSE IF s[1] # t[1] THEN Ord(s[1]) < Ord(t[1])
    ELSE StrLess(Tail(s), Tail(t))

StartsWith(s, p) == Len(s) >= Len(p) /\ SubSeq(s, 1, Len(p)) = p

\* p in s, for str
Contains(s, p) == \E i \in 1..(Len(s) + 1) : StartsWith(SubSeq(s, i, Len(s)), p)

\* s.split(sep), sep a non-empty str
RECURSIVE Split(_, _)
Split(s, sep) ==
    IF Contains(s, sep)
    THEN LET i == CHOOSE k \in 1..Len(s) :
                    /\ StartsWith(SubSeq(s, k, Len(s)), sep)
                    /\ \A j \in 1..(k - 1) : ~StartsWith(SubSeq(s, j, Len(s)), sep)
         IN  <<SubSeq(s, 1, i - 1)>> \o Split(SubSeq(s, i + Len(sep), Len(s)), sep)
    ELSE <<s>>

\* sep.join(rows)
RECURSIVE Join(_, _)
Join(rows, sep) ==
    IF rows = <<>> THEN <<>>
    ELSE IF Len(rows) = 1 THEN rows[1]
    ELSE rows[1] \o sep \o Join(Tail(rows), sep)

\* s.lstrip(), s.rstrip(), s.strip()
RECURSIVE LStrip(_)
LStrip(s) == IF s # <<>> /\ IsSpace(s[1]) THEN LStrip(Tail(s)) ELSE s

RECURSIVE RStrip(_)
RStrip(s) ==
    IF s # <<>> /\ IsSpace(s[Len(s)]) THEN RStrip(SubSeq(s, 1, Len(s) - 1)) ELSE s

Strip(s) == RStrip(LStrip(s))

\* s.split(): the maximal runs of non-whitespace characters
RECURSIVE SplitSpace(_)
SplitSpace(s) ==
    LET t == LStrip(s) IN
    IF t = <<>> THEN <<>>
    ELSE LET n == CHOOSE k \in 1..Len(t) :
                    /\ \A j \in 1..k : ~IsSpace(t[j])
                    /\ (k = Len(t) \/ IsSpace(t[k + 1]))
         IN  <<SubSeq(t, 1, n)>> \o SplitSpace(SubSeq(t, n + 1, Len(t)))

\* s.replace(" ", "")
RemoveSpaces(s) == SelectSeq(s, LAMBDA c : c # " ")

\* list(s): the characters of a str, each a str of length 1
CharList(s) == [i \in 1..Len(s) |-> <<s[i]>>]

\* [x for x in l if x != v]
Without(l, v) == SelectSeq(l, LAMBDA x : x # v)

\* l.remove(v): the first occurrence of v leaves the list
RemoveFirst(l, v) ==
    LET i == CHOOSE k \in 1..Len(l) : l[k] = v /\ \A j \in 1..(k - 1) : l[j] # v
    IN  SubSeq(l, 1, i - 1) \o SubSeq(l, i + 1, Len(l))

\* l.index(v), from 1; 0 stands for the ValueError of a value not in the list
IndexOf(l, v) ==
    IF v \in Range(l)
    THEN CHOOSE k \in 1..Len(l) : l[k] = v /\ \A j \in 1..(k - 1) : l[j] # v
    ELSE 0

\* l[lo:hi] of Python (0-based, hi excluded), for 0 <= lo and 0 <= hi <= len(l)
Slice(l, lo, hi) == SubSeq(l, lo + 1, hi)

\* the concatenation of a list of lists
RECURSIVE Flatten(_)
Flatten(ls) == IF ls = <<>> THEN <<>> ELSE ls[1] \o Flatten(Tail(ls))

\* d[k] = v on a dict
Put(d, k, v) == [x \in DOMAIN d \cup {k} |-> IF x = k THEN v ELSE d[x]]

EmptyDict == [x \in {} |-> 0]

\* d[k] += 1, with the `else d[k] = 1` of a missing key
Incr(d, k) == Put(d, k, IF k \in DOMAIN d THEN d[k] + 1 ELSE 1)

RECURSIVE SumOver(_, _)
SumOver(d, keys) ==
    IF keys = {} THEN 0
    ELSE LET k == CHOOSE x \in keys : TRUE IN d[k] + SumOver(d, keys \ {k})

\* the sum of the values of a dict
SumValues(d) == SumOver(d, DOMAIN d)

\* SEPARATOR = "@%&£$", the pound sign written "L"
SEPARATOR == <<"@", "%", "&", "L", "$">>


(***************************************************************************)
(* behav_strings_stats: the parser of the behavioural strings.             *)
(***************************************************************************)
remove_comments(s) ==
    Join(SelectSeq(Split(s, <<"\n">>), LAMBDA x : ~StartsWith(x, <<"#">>)), <<"\n">>)

\* r[0:chunk]
Chunked(r, chunk) ==
    IF chunk # 0 THEN Slice(r, 0, IF chunk < Len(r) THEN chunk ELSE Len(r)) ELSE r

\* the tokens of one non-empty row
RowTokens(row, chunk, behaviors_separator) ==
    Chunked(IF behaviors_separator = <<>>
            THEN CharList(Strip(row))
            ELSE Split(Strip(row), behaviors_separator),
            chunk)

\* the rows the loop does not skip, each split in tokens
ParsedSequences(string, chunk, behaviors_separator) ==
    LET text == remove_comments(string)
        rows == IF behaviors_separator # <<>>
                THEN Split(text, <<"\n">>)
                ELSE SplitSpace(RemoveSpaces(text))
        kept == SelectSeq(rows, LAMBDA row : row # <<>>)
    IN  [i \in 1..Len(kept) |-> RowTokens(kept[i], chunk, behaviors_separator)]

AdjacentPairs(seq) == [i \in 1..(Len(seq) - 1) |-> <<seq[i], seq[i + 1]>>]

\* every (seq[i], seq[i + 1]) in the order the loops visit them
AllPairs(seqs) == Flatten([s \in 1..Len(seqs) |-> AdjacentPairs(seqs[s])])

\* the key of a transition in the dict d
TransitionKey(p) == p[1] \o SEPARATOR \o p[2]

\* d[k] += 1 for every k of the list ks, in order
RECURSIVE CountKeys(_, _)
CountKeys(d, ks) == IF ks = <<>> THEN d ELSE CountKeys(Incr(d, ks[1]), Tail(ks))

\* the first token of every sequence that has a transition
StartingTokens(seqs) ==
    LET long == SelectSeq(seqs, LAMBDA r : Len(r) - 1 > 0)
    IN  [i \in 1..Len(long) |-> long[i][1]]

\* tot_trans_after_node[b1] += d[i] for every key i of d
RECURSIVE AfterNode(_, _, _)
AfterNode(acc, d, keys) ==
    IF keys = {} THEN acc
    ELSE LET k == CHOOSE x \in keys : TRUE
             b1 == Split(k, SEPARATOR)[1]
         IN  AfterNode(Put(acc, b1, IF b1 \in DOMAIN acc THEN acc[b1] + d[k] ELSE d[k]),
                       d, keys \ {k})

\* the values of a list in the order of their first appearance
RECURSIVE Unique(_, _)
Unique(acc, l) ==
    IF l = <<>> THEN acc
    ELSE Unique(IF l[1] \in Range(acc) THEN acc ELSE Append(acc, l[1]), Tail(l))

\* list.sort() on a list of distinct str
RECURSIVE SortTokens(_)
SortTokens(S) ==
    IF S = {} THEN <<>>
    ELSE LET m == CHOOSE x \in S : \A y \in S \ {x} : StrLess(x, y)
         IN  <<m>> \o SortTokens(S \ {m})

Behaviours(seqs) == SortTokens(Range(Unique(<<>>, Flatten(seqs))))

behav_strings_stats(string, chunk, behaviors_separator) ==
    LET seqs == ParsedSequences(string, chunk, behaviors_separator)
        d == CountKeys(EmptyDict, [i \in 1..Len(AllPairs(seqs)) |->
                                        TransitionKey(AllPairs(seqs)[i])])
        nodes == CountKeys(EmptyDict, Flatten(seqs))
    IN  [return_code |-> 0,
         sequences |-> seqs,
         d |-> d,
         nodes |-> nodes,
         starting_nodes |-> CountKeys(EmptyDict, StartingTokens(seqs)),
         tot_nodes |-> SumValues(nodes),
         tot_trans |-> SumValues(d),
         tot_trans_after_node |-> AfterNode(EmptyDict, d, DOMAIN d),
         behaviours |-> Behaviours(seqs)]

(***************************************************************************)
(* check_exclusion_list: the exclusion validator.                          *)
(***************************************************************************)
\* exclusion_list[s1] += targets, with the `= []` of a missing key
AddTargets(excl, s1, targets) ==
    Put(excl, s1, (IF s1 \in DOMAIN excl THEN excl[s1] ELSE <<>>) \o targets)

\* the loop over the rows of the exclusion text; raised: the unpacking
\* s1, s2 = row.strip().split(":") has met a row that does not split in two
RECURSIVE ParseRows(_, _, _)
ParseRows(rows, excl, behaviors_separator) ==
    IF rows = <<>> THEN [raised |-> FALSE, exclusion_list |-> excl]
    ELSE LET row == rows[1]
             parts == Split(Strip(row), <<":">>)
         IN  IF Strip(row) # <<>> /\ Contains(row, <<":">>)
             THEN IF Len(parts) # 2
                  THEN [raised |-> TRUE, exclusion_list |-> excl]
                  ELSE IF parts[1] # <<>> /\ parts[2] # <<>>
                       THEN ParseRows(
                                Tail(rows),
                                AddTargets(excl, parts[1],
                                    IF /\ behaviors_separator # <<>>
                                       /\ Contains(parts[2], behaviors_separator)
                                    THEN Split(parts[2], behaviors_separator)
                                    ELSE CharList(parts[2])),
                                behaviors_separator)
                       ELSE ParseRows(Tail(rows), excl, behaviors_separator)
             ELSE ParseRows(Tail(rows), excl, behaviors_separator)

\* seq[i] in exclusion_list and seq[i + 1] in exclusion_list[seq[i]]
Excluded(excl, a, b) == a \in DOMAIN excl /\ b \in Range(excl[a])

\* the inner loop of the test: the first excluded transition of seq from
\* position i on, <<>> when there is none
RECURSIVE ScanSeq(_, _, _)
ScanSeq(seq, i, excl) ==
    IF i > Len(seq) - 1 THEN <<>>
    ELSE IF Excluded(excl, seq[i], seq[i + 1]) THEN <<seq[i], seq[i + 1]>>
    ELSE ScanSeq(seq, i + 1, excl)

\* the outer loop of the test
RECURSIVE ScanSequences(_, _)
ScanSequences(seqs, excl) ==
    IF seqs = <<>> THEN <<>>
    ELSE IF ScanSeq(seqs[1], 1, excl) # <<>> THEN ScanSeq(seqs[1], 1, excl)
    ELSE ScanSequences(Tail(seqs), excl)

\* the dict returned; raised stands for the ValueError that ends the call
\* instead, message for the two tokens the message names
check_exclusion_list(exclusion_str, seqs, behaviors_separator) ==
    IF exclusion_str # <<>>
    THEN LET parsed == ParseRows(Split(exclusion_str, <<"\n">>), EmptyDict,
                                 behaviors_separator)
             found == ScanSequences(seqs, parsed.exclusion_list)
         IN  IF parsed.raised
             THEN [raised |-> TRUE, error_code |-> -1, message |-> <<>>,
                   exclusion_list |-> EmptyDict]
             ELSE IF found # <<>>
             THEN [raised |-> FALSE, error_code |-> 1, message |-> found,
                   exclusion_list |-> EmptyDict]
             ELSE [raised |-> FALSE, error_code |-> 0, message |-> <<>>,
                   exclusion_list |-> parsed.exclusion_list]
    ELSE [raised |-> FALSE, error_code |-> 0, message |-> <<>>,
          exclusion_list |-> EmptyDict]

(***************************************************************************)
(* create_observed_transition_matrix                                       *)
(***************************************************************************)
\* np.zeros((n, n))
Zeros(n) == [i \in 1..n |-> [j \in 1..n |-> 0]]

\* m[i, j] += 1
AddOne(m, i, j) == [m EXCEPT ![i][j] = @ + 1]

\* the loops over the transitions of the sequences
RECURSIVE CountObserved(_, _, _)
CountObserved(m, pairs, behaviours_) ==
    IF pairs = <<>> THEN m
    ELSE LET p == pairs[1] IN
         CountObserved(IF p[1] \in Range(behaviours_) /\ p[2] \in Range(behaviours_)
                       THEN AddOne(m, IndexOf(behaviours_, p[1]), IndexOf(behaviours_, p[2]))
                       ELSE m,
                       Tail(pairs), behaviours_)

\* the loop over the transitions starts one transition late
create_observed_transition_matrix_SkipFirst(seqs, behaviours_) ==
    CountObserved(Zeros(Len(behaviours_)),
                  IF AllPairs(seqs) = <<>> THEN <<>> ELSE Tail(AllPairs(seqs)),
                  behaviours_)

create_observed_transition_matrix(seqs, behaviours_) ==
    CountObserved(Zeros(Len(behaviours_)), AllPairs(seqs), behaviours_)


(***************************************************************************)
(* The state of a run.                                                     *)
(*                                                                         *)
(* main() submits num_proc calls of permutations_test to a process pool.   *)
(* Each call runs in a process of its own on pickled copies of the         *)
(* arguments and shares nothing with the others, and main() reads the      *)
(* results in the order of submission: the model runs the calls one after  *)
(* the other in that order, `worker` being the call that is running.       *)
(***************************************************************************)
VARIABLES
    pc,                 \* the place in the program
    \* behav_strings_stats and its arguments
    string, chunk, behaviors_separator, stats,
    \* check_exclusion_list: its text argument and the dict it returns
    exclusion_str, result,
    \* main(): the values the test is run on
    sequences, behaviours, observed_matrix, main_exclusion_list,
    block_first, block_last, no_repetition, nrandom_total, num_proc,
    \* main(): the aggregator
    i_proc, lst, n_required_randomizations, nb_randomization_done,
    merged_results, worker,
    \* permutations_test (the running call)
    nrandom, exclusion_list, space, count, count_tot, results,
    permuted_sequences,
    \* strings_permutation (the running call)
    gspace, perm_sequences, si, newseq, element, it, lspazio2, new_element

textVars == <<string, chunk, behaviors_separator, stats, exclusion_str, result>>
inputVars == <<sequences, behaviours, observed_matrix, main_exclusion_list,
               block_first, block_last, no_repetition, nrandom_total, num_proc>>
mainVars == <<i_proc, lst, n_required_randomizations, nb_randomization_done,
              merged_results, worker>>
driverVars == <<nrandom, exclusion_list, space, count, count_tot, results,
                permuted_sequences>>
genVars == <<gspace, perm_sequences, si, newseq, element, it, lspazio2, new_element>>
vars == <<pc, textVars, inputVars, mainVars, driverVars, genVars>>

\* int(block_first), int(block_last)
AsInt(b) == IF b THEN 1 ELSE 0

\* seq[int(block_first):len(seq) - int(block_last)]: the interior of a sequence
Interior(seq, bf, bl) == Slice(seq, AsInt(bf), Len(seq) - AsInt(bl))

(***************************************************************************)
(* main(): the aggregator.                                                 *)
(***************************************************************************)
\* every call is given nrandom // num_proc, the last one too
n_random_by_proc_NoRemainder(i, n, procs, required) == n \div procs

\* n_random_by_proc of the i-th submitted call, i from 0
n_random_by_proc(i, n, procs, required) ==
    IF i < procs - 1 THEN n \div procs ELSE n - required

\* one turn of `for i in range(num_proc)`, under `if nrandom:`
SubmitRun ==
    /\ pc = "main"
    /\ nrandom_total # 0
    /\ i_proc < num_proc
    /\ LET share == n_random_by_proc(i_proc, nrandom_total, num_proc,
                                     n_required_randomizations)
       IN  /\ lst' = Append(lst, share)
           /\ n_required_randomizations' = n_required_randomizations + share
    /\ i_proc' = i_proc + 1
    /\ pc' = IF i_proc + 1 < num_proc THEN "main" ELSE "submitted"
    /\ UNCHANGED <<textVars, inputVars, nb_randomization_done, merged_results,
                   worker, driverVars, genVars>>

\* `if nrandom:` with nrandom 0: no call is submitted and no result is merged
SkipTest ==
    /\ pc = "main"
    /\ nrandom_total = 0
    /\ pc' = "end"
    /\ UNCHANGED <<textVars, inputVars, mainVars, driverVars, genVars>>

(***************************************************************************)
(* permutations_test: the driver.                                          *)
(***************************************************************************)
\* space += sequence[int(block_first):len(sequence) - int(block_last)]
Pool(seqs, bf, bl) == Flatten([s \in 1..Len(seqs) |-> Interior(seqs[s], bf, bl)])

\* the exclusions list modified to avoid repetitions
RECURSIVE AvoidRepetitions(_, _)
AvoidRepetitions(excl, behs) ==
    IF behs = <<>> THEN excl
    ELSE LET b == behs[1]
             e1 == IF b \notin DOMAIN excl THEN Put(excl, b, <<>>) ELSE excl
             e2 == IF b \notin Range(e1[b]) THEN Put(e1, b, Append(e1[b], b)) ELSE e1
         IN  AvoidRepetitions(e2, Tail(behs))

\* the entry of the next submitted call: its arguments, and the statements
\* before `while True`; permuted_sequences is a local of the call, not
\* assigned yet
StartWorker ==
    /\ pc = "submitted"
    /\ worker < Len(lst)
    /\ worker' = worker + 1
    /\ nrandom' = lst[worker + 1]
    /\ space' = Pool(sequences, block_first, block_last)
    /\ exclusion_list' = IF no_repetition
                         THEN AvoidRepetitions(main_exclusion_list, behaviours)
                         ELSE main_exclusion_list
    /\ count' = 0
    /\ count_tot' = 0
    /\ results' = Zeros(Len(behaviours))
    /\ permuted_sequences' = <<>>
    /\ pc' = "loop"
    /\ UNCHANGED <<textVars, inputVars, i_proc, lst, n_required_randomizations,
                   nb_randomization_done, merged_results, genVars>>

\* the call of strings_permutation at the top of `while True`, and the first
\* two statements of the generator
CallPermutation ==
    /\ pc = "loop"
    /\ count < MaxN
    /\ gspace' = space
    /\ perm_sequences' = <<>>
    /\ si' = 1
    /\ pc' = "for_seq"
    /\ UNCHANGED <<textVars, inputVars, mainVars, driverVars,
                   newseq, element, it, lspazio2, new_element>>

(***************************************************************************)
(* strings_permutation: the generator.  si is the sequence `for seq` is    *)
(* at, it the number of turns of `for c` done for it.  lspazio2 and        *)
(* new_element are kept only while the `while` loop runs, newseq and       *)
(* element only while `for c` runs: the code assigns each of them again    *)
(* before it reads it.                                                     *)
(***************************************************************************)
\* lspazio2 at the top of a turn of `for c`
Candidates(pool, el, excl) ==
    IF el \in DOMAIN excl
    THEN SelectSeq(pool, LAMBDA x : x \notin Range(excl[el]))
    ELSE pool

\* the condition of the `while` loop
TailExcluded(x, seq, excl) == x \in DOMAIN excl /\ seq[Len(seq)] \in Range(excl[x])

\* the test that guards the `while` loop
AtPenultimate(bl, partial, seq) == bl /\ Len(partial) = Len(seq) - 2

\* lspazio2 as a turn of the `while` loop leaves it
RedrawPool(pool, el, seq) == Without(Without(pool, el), seq[Len(seq)])

\* newseq += seq[-1]: a list extended by a str takes its characters
ExtendWithTail(partial, seq) == partial \o CharList(seq[Len(seq)])

\* the top of `for seq in sequences`, up to `for c`
BeginSeq ==
    /\ pc = "for_seq"
    /\ si <= Len(sequences)
    /\ newseq' = IF block_first THEN <<sequences[si][1]>> ELSE <<>>
    /\ element' = IF block_first THEN sequences[si][1] ELSE <<>>
    /\ it' = 0
    /\ pc' = "for_c"
    /\ UNCHANGED <<textVars, inputVars, mainVars, driverVars,
                   gspace, perm_sequences, si, lspazio2, new_element>>

\* a return of the generator: its locals end with the call
Returned(perm) ==
    /\ permuted_sequences' = perm
    /\ pc' = "returned"
    /\ gspace' = <<>>
    /\ perm_sequences' = <<>>
    /\ newseq' = <<>>
    /\ element' = <<>>
    /\ lspazio2' = <<>>
    /\ new_element' = <<>>
    /\ si' = 0
    /\ it' = 0
    /\ UNCHANGED <<textVars, inputVars, mainVars, nrandom, exclusion_list, space,
                   count, count_tot, results>>

\* return perm_sequences
ReturnPermutation ==
    /\ pc = "for_seq"
    /\ si > Len(sequences)
    /\ Returned(perm_sequences)

\* one turn of `for c`: a draw from a non-empty lspazio2
Draw ==
    /\ pc = "for_c"
    /\ it < Len(Interior(sequences[si], block_first, block_last))
    /\ LET seq == sequences[si]
           pool == Candidates(gspace, element, exclusion_list)
       IN  /\ pool # <<>>
           /\ \E x \in Range(pool) :
                /\ gspace' = RemoveFirst(gspace, x)
                /\ IF /\ AtPenultimate(block_last, newseq, seq)
                      /\ TailExcluded(x, seq, exclusion_list)
                   THEN /\ new_element' = x
                        /\ lspazio2' = pool
                        /\ pc' = "while"
                        /\ UNCHANGED <<newseq, element, it>>
                   ELSE /\ newseq' = Append(newseq, x)
                        /\ element' = x
                        /\ it' = it + 1
                        /\ pc' = "for_c"
                        /\ UNCHANGED <<lspazio2, new_element>>
    /\ UNCHANGED <<textVars, inputVars, mainVars, driverVars, perm_sequences, si>>

\* one turn of `for c`: lspazio2 is empty, return []
AbandonDraw ==
    /\ pc = "for_c"
    /\ it < Len(Interior(sequences[si], block_first, block_last))
    /\ Candidates(gspace, element, exclusion_list) = <<>>
    /\ Returned(<<>>)

\* one turn of the `while` loop: a draw from a non-empty lspazio2
Redraw ==
    /\ pc = "while"
    /\ lspazio2 # <<>>
    /\ \E x \in Range(lspazio2) :
         IF TailExcluded(x, sequences[si], exclusion_list)
         THEN /\ new_element' = x
              /\ lspazio2' = RedrawPool(gspace, element, sequences[si])
              /\ pc' = "while"
              /\ UNCHANGED <<newseq, element, it>>
         ELSE /\ newseq' = Append(newseq, x)
              /\ element' = x
              /\ it' = it + 1
              /\ new_element' = <<>>
              /\ lspazio2' = <<>>
              /\ pc' = "for_c"
    /\ UNCHANGED <<textVars, inputVars, mainVars, driverVars, gspace,
                   perm_sequences, si>>

\* one turn of the `while` loop: lspazio2 is empty, return []
AbandonRedraw ==
    /\ pc = "while"
    /\ lspazio2 = <<>>
    /\ Returned(<<>>)

\* the end of `for c`: the blocked last token, perm_sequences.append(newseq)
EndSeq ==
    /\ pc = "for_c"
    /\ it = Len(Interior(sequences[si], block_first, block_last))
    /\ perm_sequences' =
          Append(perm_sequences,
                 IF block_last THEN ExtendWithTail(newseq, sequences[si]) ELSE newseq)
    /\ si' = si + 1
    /\ newseq' = <<>>
    /\ element' = <<>>
    /\ pc' = "for_seq"
    /\ UNCHANGED <<textVars, inputVars, mainVars, driverVars, gspace, it,
                   lspazio2, new_element>>

(***************************************************************************)
(* permutations_test: what the driver does with a returned permutation.    *)
(***************************************************************************)
\* count_tot += 1, exact below AttemptCap
NextAttempt(n) == IF n < AttemptCap THEN n + 1 ELSE n

\* behaviours.index raises ValueError on a token that is not a behaviour
IndexRaises(perm, behs) ==
    \E i \in 1..Len(AllPairs(perm)) :
        AllPairs(perm)[i][1] \notin Range(behs) \/ AllPairs(perm)[i][2] \notin Range(behs)

\* permuted_transitions_matrix
RECURSIVE CountPermuted(_, _, _)
CountPermuted(m, pairs, behs) ==
    IF pairs = <<>> THEN m
    ELSE CountPermuted(AddOne(m, IndexOf(behs, pairs[1][1]), IndexOf(behs, pairs[1][2])),
                       Tail(pairs), behs)

PermutedMatrix(perm, behs) == CountPermuted(Zeros(Len(behs)), AllPairs(perm), behs)

\* results + (permuted_transitions_matrix > observed_matrix)
AddTally_Strict(res, permuted, observed) ==
    [i \in DOMAIN res |->
        [j \in DOMAIN res[i] |->
            res[i][j] + (IF permuted[i][j] > observed[i][j] THEN 1 ELSE 0)]]

\* results + (permuted_transitions_matrix >= observed_matrix)
AddTally(res, permuted, observed) ==
    [i \in DOMAIN res |->
        [j \in DOMAIN res[i] |->
            res[i][j] + (IF permuted[i][j] >= observed[i][j] THEN 1 ELSE 0)]]

\* `if count == nrandom: break`, then return
AfterTrial(c) == IF c = nrandom THEN "driver_returned" ELSE "loop"

\* a trial that gave a permutation
TallyTrial ==
    /\ pc = "returned"
    /\ permuted_sequences # <<>>
    /\ count_tot' = NextAttempt(count_tot)
    /\ count' = count + 1
    /\ IF IndexRaises(permuted_sequences, behaviours)
       THEN /\ pc' = "ValueError"
            /\ UNCHANGED results
       ELSE /\ results' = AddTally(results,
                                   PermutedMatrix(permuted_sequences, behaviours),
                                   observed_matrix)
            /\ pc' = AfterTrial(count + 1)
    /\ UNCHANGED <<textVars, inputVars, mainVars, nrandom, exclusion_list, space,
                   permuted_sequences, genVars>>

\* a trial that the generator abandoned
AbandonedTrial ==
    /\ pc = "returned"
    /\ permuted_sequences = <<>>
    /\ count_tot' = NextAttempt(count_tot)
    /\ pc' = AfterTrial(count)
    /\ UNCHANGED <<textVars, inputVars, mainVars, nrandom, exclusion_list, space,
                   count, results, permuted_sequences, genVars>>

\* m1 + m2, element-wise
MatrixSum(m1, m2) == [i \in DOMAIN m1 |-> [j \in DOMAIN m1[i] |-> m1[i][j] + m2[i][j]]]

\* main(): one turn of `for l in lst`, on the call that has returned
CollectResult ==
    /\ pc = "driver_returned"
    /\ nb_randomization_done' = nb_randomization_done + count_tot
    /\ merged_results' = MatrixSum(merged_results, results)
    /\ pc' = IF worker < Len(lst) THEN "submitted" ELSE "end"
    /\ UNCHANGED <<textVars, inputVars, i_proc, lst, n_required_randomizations,
                   worker, driverVars, genVars>>

Next ==
    \/ SubmitRun
    \/ SkipTest
    \/ StartWorker
    \/ CallPermutation
    \/ BeginSeq
    \/ ReturnPermutation
    \/ Draw
    \/ AbandonDraw
    \/ Redraw
    \/ AbandonRedraw
    \/ EndSeq
    \/ TallyTrial
    \/ AbandonedTrial
    \/ CollectResult


(***************************************************************************)
(* The two functions main() calls before the test.                         *)
(***************************************************************************)
\* behav_strings_stats(string, chunk, behaviors_separator) and the unpacking
\* of what it returns
ParseStrings ==
    /\ pc = "parse"
    /\ stats' = behav_strings_stats(string, chunk, behaviors_separator)
    /\ sequences' = stats'.sequences
    /\ behaviours' = stats'.behaviours
    /\ pc' = "parsed"
    /\ UNCHANGED <<string, chunk, behaviors_separator, exclusion_str, result,
                   observed_matrix, main_exclusion_list, block_first, block_last,
                   no_repetition, nrandom_total, num_proc, mainVars, driverVars,
                   genVars>>

\* observed_matrix = create_observed_transition_matrix(sequences, behaviours)
CreateObserved ==
    /\ pc = "parsed"
    /\ observed_matrix' = create_observed_transition_matrix(sequences, behaviours)
    /\ pc' = "observed"
    /\ UNCHANGED <<textVars, sequences, behaviours, main_exclusion_list,
                   block_first, block_last, no_repetition, nrandom_total, num_proc,
                   mainVars, driverVars, genVars>>

NextStats == ParseStrings \/ CreateObserved

\* result = check_exclusion_list(exclusion_str, sequences), and the use of it
CheckExclusions ==
    /\ pc = "check"
    /\ result' = check_exclusion_list(exclusion_str, sequences, behaviors_separator)
    /\ IF result'.raised THEN pc' = "ValueError"
       ELSE IF result'.error_code = 0 THEN pc' = "checked"
       ELSE pc' = "end"
    /\ main_exclusion_list' =
          IF ~result'.raised /\ result'.error_code = 0
          THEN result'.exclusion_list ELSE main_exclusion_list
    /\ UNCHANGED <<string, chunk, behaviors_separator, stats, exclusion_str,
                   sequences, behaviours, observed_matrix, block_first, block_last,
                   no_repetition, nrandom_total, num_proc, mainVars, driverVars,
                   genVars>>

(***************************************************************************)
(* The inputs.                                                             *)
(***************************************************************************)
\* the str, or the lists over T, of length lo..hi
SeqsOver(T, lo, hi) == UNION {[1..k -> T] : k \in lo..hi}

\* the lists of non-empty sequences over T that hold n tokens at most
RECURSIVE SeqListsUpTo(_, _)
SeqListsUpTo(T, n) ==
    {<<>>} \cup UNION {{<<s>> \o r : r \in SeqListsUpTo(T, n - Len(s))} :
                        s \in SeqsOver(T, 1, n)}

\* the exclusion map check_exclusion_list returns for the transitions P,
\* written one `source:target` a row
MapOf(P) ==
    [a \in {p[1] : p \in P} |-> SortTokens({p[2] : p \in {q \in P : q[1] = a}})]

ExclusionMaps(T, n) == {MapOf(P) : P \in {Q \in SUBSET (T \X T) : Cardinality(Q) <= n}}

GenTokens == {<<"a">>, <<"b">>, <<"a", "b">>}
RunTokens == {<<"a">>, <<"b">>}
TextChars == {"a", "b", "\n", " ", "#", "|"}
ExclChars == {"a", "b", ":", "\n"}

\* the variables a specification does not use
TextIdle ==
    /\ string = <<>>
    /\ chunk = 0
    /\ behaviors_separator = <<>>
    /\ stats = <<>>
    /\ exclusion_str = <<>>
    /\ result = <<>>

TestIdle ==
    /\ i_proc = 0
    /\ lst = <<>>
    /\ n_required_randomizations = 0
    /\ nb_randomization_done = 0
    /\ worker = 0
    /\ nrandom = 0
    /\ exclusion_list = EmptyDict
    /\ space = <<>>
    /\ count = 0
    /\ count_tot = 0
    /\ results = <<>>
    /\ permuted_sequences = <<>>
    /\ gspace = <<>>
    /\ perm_sequences = <<>>
    /\ si = 0
    /\ newseq = <<>>
    /\ element = <<>>
    /\ it = 0
    /\ lspazio2 = <<>>
    /\ new_element = <<>>

\* main() at `if nrandom:`, the strings parsed, the exclusions checked
\* (error_code 0) and the observed matrix built
TestReady ==
    /\ pc = "main"
    /\ sequences # <<>>
    /\ ScanSequences(sequences, main_exclusion_list) = <<>>
    /\ behaviours = Behaviours(sequences)
    /\ observed_matrix = create_observed_transition_matrix(sequences, behaviours)
    /\ merged_results = Zeros(Len(behaviours))
    /\ block_first \in BOOLEAN
    /\ block_last \in BOOLEAN
    /\ no_repetition \in BOOLEAN
    /\ TextIdle
    /\ TestIdle

\* the test of main() for at most one randomization on one process: one run
\* of permutations_test, under an exclusion map and blocked ends
Init ==
    /\ sequences \in {l \in SeqListsUpTo(GenTokens, MaxTokens) :
                        /\ Len(l) <= MaxSeqs
                        /\ \A s \in 1..Len(l) : Len(l[s]) <= MaxLen}
    /\ main_exclusion_list \in ExclusionMaps(GenTokens, MaxExcl)
    /\ nrandom_total \in 0..1
    /\ num_proc = 1
    /\ TestReady
    /\ ~no_repetition

Spec == Init /\ [][Next]_vars

\* the test of main(): nrandom randomizations on num_proc processes
InitRun ==
    /\ sequences \in SeqListsUpTo(RunTokens, MaxTokensRun)
    /\ main_exclusion_list \in ExclusionMaps(RunTokens, MaxExclRun)
    /\ nrandom_total \in 0..MaxN
    /\ num_proc \in 1..MaxW
    /\ TestReady

SpecRun == InitRun /\ [][Next]_vars

\* a program that can take a step takes one
FairSpec == InitRun /\ [][Next]_vars /\ WF_vars(Next)

\* a call of behav_strings_stats, then of create_observed_transition_matrix
InitStats ==
    /\ pc = "parse"
    /\ string \in SeqsOver(TextChars, 0, MaxText)
    /\ chunk \in 0..MaxChunk
    /\ behaviors_separator \in {<<>>, <<"|">>}
    /\ stats = <<>>
    /\ exclusion_str = <<>>
    /\ result = <<>>
    /\ sequences = <<>>
    /\ behaviours = <<>>
    /\ observed_matrix = <<>>
    /\ main_exclusion_list = EmptyDict
    /\ merged_results = <<>>
    /\ block_first = FALSE
    /\ block_last = FALSE
    /\ no_repetition = FALSE
    /\ nrandom_total = 0
    /\ num_proc = 1
    /\ TestIdle

SpecStats == InitStats /\ [][NextStats]_vars

\* a call of check_exclusion_list as main() makes it
InitExcl ==
    /\ pc = "check"
    /\ exclusion_str \in SeqsOver(ExclChars, 0, MaxExclText)
    /\ sequences \in SeqListsUpTo(RunTokens, MaxTokensExcl)
    /\ behaviors_separator = <<>>
    /\ string = <<>>
    /\ chunk = 0
    /\ stats = <<>>
    /\ result = <<>>
    /\ behaviours = Behaviours(sequences)
    /\ observed_matrix = <<>>
    /\ main_exclusion_list = EmptyDict
    /\ merged_results = <<>>
    /\ block_first = FALSE
    /\ block_last = FALSE
    /\ no_repetition = FALSE
    /\ nrandom_total = 1
    /\ num_proc = 1
    /\ TestIdle

SpecExcl == InitExcl /\ [][CheckExclusions]_vars


\* the loop of main() that submits the calls, alone
InitShares ==
    /\ sequences \in SeqListsUpTo(RunTokens, 1)
    /\ main_exclusion_list = EmptyDict
    /\ nrandom_total \in 0..MaxNShares
    /\ num_proc \in 1..MaxWShares
    /\ TestReady

NextShares == SubmitRun \/ SkipTest

SpecShares == InitShares /\ [][NextShares]_vars

(***************************************************************************)
(* The claims.                                                             *)
(***************************************************************************)
\* the generator has returned a permutation to the driver
Permuted == pc = "returned" /\ permuted_sequences # <<>>

\* the positions of a sequence that have a successor
Transitions(seq) == 1..(Len(seq) - 1)

\* C1: no permuted sequence that a successful call of the generator returns
\* holds an adjacent pair (A, B) with B in the exclusion map of A.  Stated for
\* the permuted sequences that have the length of their original: it leaves
\* out those a blocked last token has lengthened (C2, C12), so what is left
\* is the generator's own choice of tokens.
C1_NoExcludedTransition ==
    Permuted =>
        \A s \in 1..Len(permuted_sequences) :
            Len(permuted_sequences[s]) = Len(sequences[s]) =>
                \A i \in Transitions(permuted_sequences[s]) :
                    ~Excluded(exclusion_list, permuted_sequences[s][i],
                              permuted_sequences[s][i + 1])

\* C2: in a successful permutation a blocked first token is the first token
\* of the original sequence and a blocked last token is its last token,
\* whatever the form of the tokens.
C2_BlockedEndsKept ==
    Permuted =>
        \A s \in 1..Len(permuted_sequences) :
            LET p == permuted_sequences[s] IN
            /\ block_first => p[1] = sequences[s][1]
            /\ block_last => p[Len(p)] = sequences[s][Len(sequences[s])]

\* C3: with no_repetition, no permuted sequence of a successful trial holds
\* two identical adjacent tokens.
C3_NoRepetition ==
    (Permuted /\ no_repetition) =>
        \A s \in 1..Len(permuted_sequences) :
            \A i \in Transitions(permuted_sequences[s]) :
                permuted_sequences[s][i] # permuted_sequences[s][i + 1]

\* no trial can complete: ends are not blocked at the tail, some sequence has
\* two interior positions, and every token of the pool is excluded after
\* every token of the pool, so the second draw of that sequence finds no
\* candidate
NoTrialCanComplete ==
    LET excl == IF no_repetition
                THEN AvoidRepetitions(main_exclusion_list, behaviours)
                ELSE main_exclusion_list
        pool == Range(Pool(sequences, block_first, block_last))
    IN  /\ ~block_last
        /\ \E s \in 1..Len(sequences) :
                Len(Interior(sequences[s], block_first, block_last)) >= 2
        /\ \A x \in pool : \A y \in pool : Excluded(excl, x, y)

\* C4: when no trial can complete, the test stops: main() gets every result,
\* or an InfeasiblePermutation failure is reported.
C4_DriverStops ==
    (nrandom_total > 0 /\ NoTrialCanComplete)
        => <>(pc \in {"end", "InfeasiblePermutation"})

\* C5: every worker's Driver returns after exactly its share of successful
\* trials: the successes it has counted never pass its share (the loop ends
\* only on count == nrandom, so a count that has passed it never ends it).
C5_CountWithinShare == count <= nrandom

\* the number of transitions a -> b in the sequences
Occurrences(seqs, a, b) ==
    Cardinality({p \in UNION {{<<s, i>> : i \in Transitions(seqs[s])} : s \in 1..Len(seqs)} :
                    seqs[p[1]][p[2]] = a /\ seqs[p[1]][p[2] + 1] = b})

\* every cell is a number of successes, and all of them where nothing was
\* observed; a Driver returns with its target reached
C6_Cells ==
    /\ \A i \in DOMAIN results : \A j \in DOMAIN results[i] :
            /\ results[i][j] \in 0..count
            /\ observed_matrix[i][j] = 0 => results[i][j] = count
    /\ pc = "driver_returned" => count = nrandom

\* a trial adds one success and one to the cells where the permuted count is
\* at least the observed one; an abandoned attempt adds one to count_tot only
C6_Trial ==
    /\ (pc = "returned" /\ permuted_sequences # <<>> /\ pc' # "ValueError") =>
            /\ count' = count + 1
            /\ count_tot' = NextAttempt(count_tot)
            /\ \A i \in DOMAIN results : \A j \in DOMAIN results[i] :
                    results'[i][j] = results[i][j] +
                        (IF Occurrences(permuted_sequences, behaviours[i], behaviours[j])
                                >= observed_matrix[i][j] THEN 1 ELSE 0)
    /\ (pc = "returned" /\ permuted_sequences = <<>>) =>
            /\ count' = count
            /\ results' = results
            /\ count_tot' = NextAttempt(count_tot)
    /\ pc \in {"loop", "for_seq", "for_c", "while"} =>
            UNCHANGED <<count, count_tot, results>>

\* C6: at every point of a Driver run each cell of the tally counts the
\* successful trials whose permuted count was >= the observed count; an
\* abandoned attempt only increments total_attempts; at return every cell is
\* in 0..n and is n where the observed count is 0.
C6_Tally == []C6_Cells /\ [][C6_Trial]_vars

\* a Driver has returned after two successes and an abandoned attempt, with a
\* cell where nothing was observed and a cell that a success did not reach
C6_Witness ==
    /\ pc = "driver_returned"
    /\ count = 2
    /\ count_tot > count
    /\ \E i \in DOMAIN results : \E j \in DOMAIN results :
            observed_matrix[i][j] = 0 /\ results[i][j] = 2
    /\ \E i \in DOMAIN results : \E j \in DOMAIN results : results[i][j] = 1

RECURSIVE SumList(_)
SumList(l) == IF l = <<>> THEN 0 ELSE l[1] + SumList(Tail(l))

\* what the claim says of the calls main() has submitted
SharesOutcome ==
    /\ Len(lst) = num_proc
    /\ \A i \in 1..Len(lst) :
            /\ lst[i] >= 0
            /\ i < num_proc => lst[i] = nrandom_total \div num_proc
    /\ lst[num_proc] = nrandom_total - (num_proc - 1) * (nrandom_total \div num_proc)
    /\ SumList(lst) = nrandom_total

\* C7, as stated: for every nrandom >= 0 and num_proc >= 1 the aggregator
\* submits num_proc runs; each of the first num_proc - 1 is given
\* nrandom // num_proc trials, the last one the remainder; the shares are
\* non-negative and sum to nrandom.
C7_AsStated ==
    (nrandom_total >= 0 /\ pc \in {"submitted", "end"}) => SharesOutcome

\* C7, amended: the same for every nrandom >= 1; while the calls are being
\* submitted the shares given so far are the ones stated and
\* n_required_randomizations is their sum.
C7_Shares ==
    nrandom_total >= 1 =>
        /\ Len(lst) = i_proc
        /\ n_required_randomizations = SumList(lst)
        /\ \A i \in 1..Len(lst) :
                /\ lst[i] >= 0
                /\ i < num_proc => lst[i] = nrandom_total \div num_proc
        /\ pc # "main" => SharesOutcome

\* every run is submitted and the last share is larger than the others
C7_Witness ==
    /\ pc = "submitted"
    /\ num_proc >= 3
    /\ lst[1] >= 1
    /\ lst[num_proc] > lst[1]

\* the places of the excluded transitions of the sequences, in scan order
Violations(seqs, excl) ==
    {p \in UNION {{<<s, i>> : i \in Transitions(seqs[s])} : s \in 1..Len(seqs)} :
        Excluded(excl, seqs[p[1]][p[2]], seqs[p[1]][p[2] + 1])}

Before(p, q) == p[1] < q[1] \/ (p[1] = q[1] /\ p[2] < q[2])

\* the exclusion map the rows of the text parse to
ParsedMap == ParseRows(Split(exclusion_str, <<"\n">>), EmptyDict,
                       behaviors_separator).exclusion_list

\* what the claim says of a call that has ended
ValidationOutcome ==
    /\ ~result.raised
    /\ result.error_code = 1 <=> Violations(sequences, ParsedMap) # {}
    /\ result.error_code = 1 =>
            /\ result.exclusion_list = EmptyDict
            /\ \E p \in Violations(sequences, ParsedMap) :
                    /\ \A q \in Violations(sequences, ParsedMap) : ~Before(q, p)
                    /\ result.message = <<sequences[p[1]][p[2]],
                                          sequences[p[1]][p[2] + 1]>>
    /\ result.error_code # 1 =>
            /\ result.error_code = 0
            /\ result.exclusion_list = ParsedMap

\* C8: for every non-empty exclusion specification the call returns a
\* failure exactly when a sequence holds an excluded transition, the failure
\* of the first one in scan order, and otherwise error_code 0 with the parsed
\* exclusion map.
C8_Validation ==
    (pc # "check" /\ exclusion_str # <<>>) => ValidationOutcome

\* the sum of the cells of a matrix
MatrixTotal(m) == SumList([i \in DOMAIN m |-> SumList(m[i])])

\* C9: the cells of the observed matrix sum to the number of adjacent pairs,
\* the sum over the sequences of (length - 1), and to the parser's tot_trans.
C9_ObservedSum ==
    (pc = "observed" /\ sequences # <<>>) =>
        /\ MatrixTotal(observed_matrix)
               = SumList([s \in 1..Len(sequences) |-> Len(sequences[s]) - 1])
        /\ MatrixTotal(observed_matrix) = stats.tot_trans

\* two sequences, one of them with a transition made twice
C9_Witness ==
    /\ pc = "observed"
    /\ Len(sequences) >= 2
    /\ \E i \in DOMAIN observed_matrix : \E j \in DOMAIN observed_matrix :
            observed_matrix[i][j] >= 2

\* C10: the re-draw loop never reaches a state it cannot leave: a pool of
\* candidates that is not empty, that every turn of the loop leaves as it
\* is, and every token of which excludes the tail token.
C10_RedrawLoopEnds ==
    ~(/\ pc = "while"
      /\ lspazio2 # <<>>
      /\ lspazio2 = RedrawPool(gspace, element, sequences[si])
      /\ \A x \in Range(lspazio2) : TailExcluded(x, sequences[si], exclusion_list))

\* the number of places of the sequences that hold the token t
TokenCount(seqs, t) == Len(SelectSeq(Flatten(seqs), LAMBDA x : x = t))

\* every permuted sequence has the length of its original
LengthsKept ==
    /\ Len(permuted_sequences) = Len(sequences)
    /\ \A s \in 1..Len(sequences) : Len(permuted_sequences[s]) = Len(sequences[s])

\* C11: in a successful trial every token of the pool is placed exactly once:
\* the permuted sequences hold each token as many times as the original
\* sequences do.  Stated for the permutations that keep the lengths of the
\* sequences (C12), so that what is counted is the generator's draws, the
\* tokens the re-draw loop accepts included.
C11_TokensConserved ==
    (Permuted /\ LengthsKept) =>
        \A t \in Range(Flatten(sequences)) \cup Range(Flatten(permuted_sequences)) :
            TokenCount(permuted_sequences, t) = TokenCount(sequences, t)

\* C12: a successful trial returns one permuted sequence for each input
\* sequence, in input order, each of the length of its original, whatever
\* the length of the sequence and the blocked ends.
C12_LengthsKept == Permuted => LengthsKept

\* C13: a call of permutations_test leaves its inputs as they were: the
\* exclusion map the caller passed is the same when the call returns, the
\* pool of the call stays the full pool of the interiors, and every trial
\* starts from that full pool.  (No step of the call assigns sequences,
\* behaviours or observed_matrix.)
C13_InputsReadOnly ==
    /\ pc = "driver_returned" => exclusion_list = main_exclusion_list
    /\ pc \in {"loop", "for_seq", "for_c", "while", "returned", "driver_returned"} =>
            space = Pool(sequences, block_first, block_last)
    /\ (pc = "for_seq" /\ si = 1) => gspace = space

=============================================================================
